---- MODULE Spec2Model ----
(***************************************************************************)
(* rustfuck: a brainfuck parser (src/src/rustfucked.rs: parse), tree       *)
(* interpreter (execute) and LLVM IR generator                             *)
(* (src/src/llvm_ir_generator.rs: code_gen).                               *)
(*                                                                         *)
(* Three specifications share the variables:                               *)
(*   SpecParse  parse(src, 0) as called by main, one action per iteration  *)
(*              of its while loop, the recursion as an explicit stack;     *)
(*   SpecGen    code_gen(code), one action per statement emitted;          *)
(*   SpecExec   execute(code, state) on a zeroed tape, one action per      *)
(*              statement executed.                                        *)
(***************************************************************************)
EXTENDS Integers, Sequences, FiniteSets, TLC

VARIABLES
    src,        \* parse: the source bytes (src : &[u8])
    pstack,     \* parse: the activations of parse, each [code, i]; the last is running
    ppc,        \* parse: "scan" while parsing, "done" once main holds the result ("idle": not run)
    program,    \* main: the tree bound by `let (program, _) = parse(&src, 0)`
    rescans,    \* parse: how often a nested activation returned at the end of input
    gcode,      \* code_gen: the tree handed to code_gen
    gstack,     \* code_gen: the activations of write_code, each [code, idx]
    gloops,     \* code_gen: the loop_num each activation waiting in its Loop arm holds
    ir,         \* code_gen: the emitted text, one record per line
    context,    \* code_gen: CodeGenContext [regc, loopc]
    gpc,        \* code_gen: "header", "walk", "done" ("idle": not run)
    ecode,      \* execute: the tree handed to execute
    estack,     \* execute: the activations of execute, each [code, idx]
    state,      \* execute: ProgramState [ptr, tape]; tape holds the cells written, the rest are 0
    out,        \* execute: the bytes written to stdout
    steps,      \* execute: statements executed so far
    epc         \* execute: "run", "done", "panic" ("idle": not run)

vars == <<src, pstack, ppc, program, rescans,
          gcode, gstack, gloops, ir, context, gpc,
          ecode, estack, state, out, steps, epc>>

parseVars == <<src, pstack, ppc, program, rescans>>
genVars   == <<gcode, gstack, gloops, ir, context, gpc>>
execVars  == <<ecode, estack, state, out, steps, epc>>

(***************************************************************************)
(* Bounds of the model.                                                    *)
(***************************************************************************)
MaxLen == 4          \* longest source given to parse
MaxRescans == 2      \* nested activations that may return at the end of input
MaxNodes == 4        \* statements (at all depths) of a tree given to code_gen
MaxExecNodes == 3    \* statements (at all depths) of a tree given to execute
MaxSteps == 6        \* statements one execute run may execute

(***************************************************************************)
(* enum Stmt.  One record shape for all five variants: n is the magnitude  *)
(* of Move and Add, body the statements of Loop.                           *)
(***************************************************************************)
Move(n)    == [k |-> "Move",   n |-> n, body |-> <<>>]
Add(n)     == [k |-> "Add",    n |-> n, body |-> <<>>]
Input      == [k |-> "Input",  n |-> 0, body |-> <<>>]
Output     == [k |-> "Output", n |-> 0, body |-> <<>>]
Loop(code) == [k |-> "Loop",   n |-> 0, body |-> code]

\* The bytes a source is drawn from: the eight symbols and one comment byte.
Bytes == {"[", "]", ">", "<", "+", "-", ",", ".", "#"}

RECURSIVE SeqsUpTo(_, _)
SeqsUpTo(S, n) ==
    IF n = 0 THEN {<<>>}
    ELSE LET shorter == SeqsUpTo(S, n - 1)
         IN  shorter \cup {Append(s, x) : s \in {t \in shorter : Len(t) = n - 1}, x \in S}

(***************************************************************************)
(* parse                                                                   *)
(***************************************************************************)
\* maybe_statement with '<' taken for '>'.
maybe_statement_lt_as_gt(c) ==
    CASE c = ">" -> <<Move(1)>>
      [] c = "<" -> <<Move(1)>>
      [] c = "+" -> <<Add(1)>>
      [] c = "-" -> <<Add(-1)>>
      [] c = "," -> <<Input>>
      [] c = "." -> <<Output>>
      [] OTHER   -> <<>>

\* The match on c: Some(stmt) is <<stmt>>, None is <<>>.
maybe_statement(c) ==
    CASE c = ">" -> <<Move(1)>>
      [] c = "<" -> <<Move(-1)>>
      [] c = "+" -> <<Add(1)>>
      [] c = "-" -> <<Add(-1)>>
      [] c = "," -> <<Input>>
      [] c = "." -> <<Output>>
      [] OTHER   -> <<>>

\* push_folded without the (Add, Add) arm.
push_folded_move_only(code, s) ==
    IF Len(code) = 0 THEN Append(code, s)
    ELSE LET last_idx == Len(code)
             last == code[last_idx]
         IN  IF last.k = "Move" /\ s.k = "Move"
                 THEN [code EXCEPT ![last_idx] = Move(last.n + s.n)]
             ELSE Append(code, s)

\* "add to program representation": fold s into the last statement or push it.
push_folded(code, s) ==
    IF Len(code) = 0 THEN Append(code, s)
    ELSE LET last_idx == Len(code)
             last == code[last_idx]
         IN  IF last.k = "Move" /\ s.k = "Move"
                 THEN [code EXCEPT ![last_idx] = Move(last.n + s.n)]
             ELSE IF last.k = "Add" /\ s.k = "Add"
                 THEN [code EXCEPT ![last_idx] = Add(last.n + s.n)]
             ELSE Append(code, s)

\* idx_after_exit handing back the index of the ']' itself.
idx_after_exit_on_bracket(i) == i

\* The index a ']' at i hands back: return (code, i + 1).
idx_after_exit(i) == i + 1

\* The index the end of input hands back: return (code, 0).
idx_at_end == 0

Top(stack) == stack[Len(stack)]
Pop(stack) == SubSeq(stack, 1, Len(stack) - 1)

\* src[i] as char, i counted from 0.
ByteAt(i) == src[i + 1]

\* The activation below the running one receives (loop_code, idx_after_loop):
\* code.push(Stmt::Loop(loop_code)); i = idx_after_loop; continue.
ReturnToCaller(loop_code, idx_after_loop) ==
    LET below == Pop(pstack)
        caller == Top(below)
    IN  pstack' = [below EXCEPT ![Len(below)] =
                      [code |-> Append(caller.code, Loop(loop_code)),
                       i    |-> idx_after_loop]]

\* main: let (program, _) = parse(&src, 0).
ReturnToMain(code) ==
    /\ program' = code
    /\ ppc' = "done"
    /\ UNCHANGED pstack

\* if c == '[': the recursive call parse(src, i + 1).
ParseLoopEntry ==
    /\ ppc = "scan"
    /\ Top(pstack).i < Len(src)
    /\ ByteAt(Top(pstack).i) = "["
    /\ pstack' = Append(pstack, [code |-> <<>>, i |-> Top(pstack).i + 1])
    /\ UNCHANGED <<src, ppc, program, rescans>>

\* ParseLoopExit that skips a ']' met at the top level instead of returning.
ParseLoopExit_skip_at_top ==
    /\ ppc = "scan"
    /\ Top(pstack).i < Len(src)
    /\ ByteAt(Top(pstack).i) = "]"
    /\ IF Len(pstack) > 1
           THEN ReturnToCaller(Top(pstack).code, idx_after_exit(Top(pstack).i))
           ELSE pstack' = [pstack EXCEPT ![1].i = @ + 1]
    /\ UNCHANGED <<src, ppc, program, rescans>>

\* if c == ']': return (code, i + 1).
ParseLoopExit ==
    /\ ppc = "scan"
    /\ Top(pstack).i < Len(src)
    /\ ByteAt(Top(pstack).i) = "]"
    /\ IF Len(pstack) > 1
           THEN /\ ReturnToCaller(Top(pstack).code, idx_after_exit(Top(pstack).i))
                /\ UNCHANGED <<ppc, program>>
           ELSE ReturnToMain(Top(pstack).code)
    /\ UNCHANGED <<src, rescans>>

\* Any other byte: the match, the fold or push, i += 1.
ParseStatement ==
    /\ ppc = "scan"
    /\ Top(pstack).i < Len(src)
    /\ ByteAt(Top(pstack).i) \notin {"[", "]"}
    /\ LET top == Top(pstack)
           ms == maybe_statement(ByteAt(top.i))
           code == IF ms # <<>> THEN push_folded(top.code, ms[1]) ELSE top.code
       IN  pstack' = [pstack EXCEPT ![Len(pstack)] = [code |-> code, i |-> top.i + 1]]
    /\ UNCHANGED <<src, ppc, program, rescans>>

\* The while condition fails: return (code, 0).
ParseEnd ==
    /\ ppc = "scan"
    /\ Top(pstack).i >= Len(src)
    /\ IF Len(pstack) > 1
           THEN /\ rescans < MaxRescans
                /\ ReturnToCaller(Top(pstack).code, idx_at_end)
                /\ rescans' = rescans + 1
                /\ UNCHANGED <<ppc, program>>
           ELSE /\ ReturnToMain(Top(pstack).code)
                /\ UNCHANGED rescans
    /\ UNCHANGED src

GenIdle ==
    /\ gcode = <<>> /\ gstack = <<>> /\ gloops = <<>> /\ ir = <<>>
    /\ context = [regc |-> 0, loopc |-> 0] /\ gpc = "idle"

ExecIdle ==
    /\ ecode = <<>> /\ estack = <<>> /\ state = [ptr |-> 0, tape |-> <<>>]
    /\ out = <<>> /\ steps = 0 /\ epc = "idle"

ParseIdle ==
    /\ src = <<>> /\ pstack = <<>> /\ ppc = "idle" /\ program = <<>> /\ rescans = 0

InitParse ==
    /\ src \in SeqsUpTo(Bytes, MaxLen)
    /\ pstack = <<[code |-> <<>>, i |-> 0]>>
    /\ ppc = "scan"
    /\ program = <<>>
    /\ rescans = 0
    /\ GenIdle
    /\ ExecIdle

NextParse ==
    \/ ParseLoopEntry /\ UNCHANGED <<genVars, execVars>>
    \/ ParseLoopExit  /\ UNCHANGED <<genVars, execVars>>
    \/ ParseStatement /\ UNCHANGED <<genVars, execVars>>
    \/ ParseEnd       /\ UNCHANGED <<genVars, execVars>>

SpecParse == InitParse /\ [][NextParse]_vars

(***************************************************************************)
(* Properties of parse                                                     *)
(***************************************************************************)
Range(s) == {s[j] : j \in 1..Len(s)}

Count(s, c) == Cardinality({j \in 1..Len(s) : s[j] = c})

\* '[' minus ']' among the first j bytes of s.
DepthAfter(s, j) == Count(SubSeq(s, 1, j), "[") - Count(SubSeq(s, 1, j), "]")

\* Every ']' closes an earlier '[' and every '[' is closed.
Balanced(s) ==
    /\ \A j \in 1..Len(s) : DepthAfter(s, j) >= 0
    /\ DepthAfter(s, Len(s)) = 0

\* The deepest bracket nesting of s.
BracketDepth(s) ==
    LET ds == {DepthAfter(s, j) : j \in 0..Len(s)}
    IN  CHOOSE d \in ds : \A e \in ds : e <= d

\* Some ']' of s closes no '['.
HasUnmatchedClose(s) == \E j \in 1..Len(s) : DepthAfter(s, j) < 0

\* The position (from 1) of the first ']' of s that closes no '['.
FirstUnmatchedClose(s) ==
    CHOOSE j \in 1..Len(s) :
        /\ DepthAfter(s, j) < 0
        /\ \A m \in 1..(j - 1) : DepthAfter(s, m) >= 0

\* The position (from 1) of the ']' closing the '[' at position j of a balanced s.
MatchingClose(s, j) ==
    CHOOSE m \in (j + 1)..Len(s) :
        /\ DepthAfter(s, m) = DepthAfter(s, j - 1)
        /\ \A q \in j..(m - 1) : DepthAfter(s, q) > DepthAfter(s, j - 1)

RECURSIVE FoldedSeq(_)
FoldedSeq(code) ==
    /\ \A j \in 1..(Len(code) - 1) :
           ~(code[j].k = code[j + 1].k /\ code[j].k \in {"Move", "Add"})
    /\ \A j \in 1..Len(code) : code[j].k = "Loop" => FoldedSeq(code[j].body)

max(a, b) == IF a >= b THEN a ELSE b

RECURSIVE LoopDepth(_)
LoopDepth(code) ==
    IF code = <<>> THEN 0
    ELSE max(IF code[1].k = "Loop" THEN 1 + LoopDepth(code[1].body) ELSE 0,
             LoopDepth(Tail(code)))

RECURSIVE LoopCount(_)
LoopCount(code) ==
    IF code = <<>> THEN 0
    ELSE (IF code[1].k = "Loop" THEN 1 + LoopCount(code[1].body) ELSE 0)
         + LoopCount(Tail(code))

\* The tree the grammar gives a balanced source: a Loop per bracket pair, its
\* body the bytes between the pair, runs of one kind summed.
RECURSIVE TreeOf(_, _)
TreeOf(s, acc) ==
    IF s = <<>> THEN acc
    ELSE IF s[1] = "[" THEN
        LET m == MatchingClose(s, 1)
        IN  TreeOf(SubSeq(s, m + 1, Len(s)),
                   Append(acc, Loop(TreeOf(SubSeq(s, 2, m - 1), <<>>))))
    ELSE IF s[1] \in {">", "<"} THEN
        IF acc # <<>> /\ acc[Len(acc)].k = "Move"
            THEN TreeOf(Tail(s), [acc EXCEPT ![Len(acc)].n = @ + (IF s[1] = ">" THEN 1 ELSE -1)])
            ELSE TreeOf(Tail(s), Append(acc, Move(IF s[1] = ">" THEN 1 ELSE -1)))
    ELSE IF s[1] \in {"+", "-"} THEN
        IF acc # <<>> /\ acc[Len(acc)].k = "Add"
            THEN TreeOf(Tail(s), [acc EXCEPT ![Len(acc)].n = @ + (IF s[1] = "+" THEN 1 ELSE -1)])
            ELSE TreeOf(Tail(s), Append(acc, Add(IF s[1] = "+" THEN 1 ELSE -1)))
    ELSE IF s[1] = "," THEN TreeOf(Tail(s), Append(acc, Input))
    ELSE IF s[1] = "." THEN TreeOf(Tail(s), Append(acc, Output))
    ELSE TreeOf(Tail(s), acc)

\* C1: parse(src, 0) terminates also with an unmatched '[': the scan reaches
\* the end of input once and no byte is scanned again after a nested parse
\* returns, that is, no activation's scan index ever moves backwards.
C1_NoByteScannedAgain ==
    [][/\ \A j \in 1..Len(pstack') :
              j <= Len(pstack) => pstack'[j].i >= pstack[j].i
       /\ Len(pstack') < Len(pstack) =>
              Top(pstack').i > pstack[Len(pstack')].i]_vars

\* C2: in every sequence under construction and in the returned tree, at the
\* top level and in every Loop body, no two adjacent siblings are both Move
\* or both Add.
C2_Folded ==
    /\ \A j \in 1..Len(pstack) : FoldedSeq(pstack[j].code)
    /\ FoldedSeq(program)

\* A finished parse that folded across a comment byte to magnitude 0 and
\* then went on in the same kind.
C2_Witness ==
    /\ ppc = "done"
    /\ src = <<"+", "#", "-", "+">>
    /\ program = <<Add(1)>>

\* C3: a non-empty source of only '>' and '<' parses to the single statement
\* Move(#'>' - #'<'), one of only '+' and '-' to the single Add(#'+' - #'-').
C3_Magnitude ==
    (ppc = "done" /\ src # <<>>) =>
        /\ Range(src) \subseteq {">", "<"} =>
               program = <<Move(Count(src, ">") - Count(src, "<"))>>
        /\ Range(src) \subseteq {"+", "-"} =>
               program = <<Add(Count(src, "+") - Count(src, "-"))>>

C3_Witness ==
    /\ ppc = "done"
    /\ src = <<">", "<", "<", "<">>
    /\ program = <<Move(-2)>>

\* C4: for a balanced source the tree has one Loop per bracket pair, nested
\* exactly as deep as the brackets; every nested activation scans inside the
\* pair whose '[' its caller stands on, and every activation stands at the
\* bracket depth of its own level, so that after a ']' the caller resumes
\* right behind it and what follows becomes a sibling of the Loop.
C4_BracketMatching ==
    Balanced(src) =>
        /\ \A j \in 1..Len(pstack) :
               /\ pstack[j].i <= Len(src)
               /\ DepthAfter(src, pstack[j].i) = j - 1
        /\ \A j \in 2..Len(pstack) :
               /\ src[pstack[j - 1].i + 1] = "["
               /\ pstack[j].i > pstack[j - 1].i
               /\ pstack[j].i < MatchingClose(src, pstack[j - 1].i + 1)
        /\ ppc = "done" =>
               /\ LoopDepth(program) = BracketDepth(src)
               /\ LoopCount(program) = Count(src, "[")
               /\ program = TreeOf(src, <<>>)

C4_Witness ==
    /\ ppc = "done"
    /\ src = <<"[", "[", "]", "]">>
    /\ program = <<Loop(<<Loop(<<>>)>>)>>

\* C10: when the top-level scan meets a ']' that closes nothing, main gets
\* exactly the parse of the bytes before it; nothing after it contributes.
C10_UnmatchedCloseEndsParse ==
    (ppc \in {"scan", "done"} /\ HasUnmatchedClose(src)) =>
        LET first == FirstUnmatchedClose(src)
        IN  /\ rescans = 0
            /\ \A j \in 1..Len(pstack) : pstack[j].i < first
            /\ ppc = "done" => program = TreeOf(SubSeq(src, 1, first - 1), <<>>)

C10_Witness ==
    /\ ppc = "done"
    /\ src = <<"+", "]", "[", "-">>
    /\ program = <<Add(1)>>

(***************************************************************************)
(* code_gen                                                                *)
(***************************************************************************)
\* One emitted line: its opcode, the register it defines (-1: none), the
\* registers it reads, its immediate operand and the labels it names.
Line(op, def, use, imm, lbl) ==
    [op |-> op, def |-> def, use |-> use, imm |-> imm, lbl |-> lbl]

Plain(op) == Line(op, -1, <<>>, 0, <<>>)

LoopCond(k)  == <<"loop_cond", k>>
LoopBegin(k) == <<"loop_begin", k>>
LoopEnd(k)   == <<"loop_end", k>>

write_header(text) ==
    text \o <<Plain("global memory"), Plain("global memory_idx"),
              Plain("define main"), Plain("entry:")>>

write_footer(text) ==
    text \o <<Plain("ret"), Plain("close main"),
              Plain("declare putchar"), Plain("declare getchar")>>

\* Returns the text, the context and the returned u32 (ret), the register
\* after the one holding &memory[memory_idx] as returned by regc - 1.
write_get_memory_ref(text, ctx) ==
    LET r == ctx.regc
    IN  [ir |-> text \o <<Line("load memory_idx", r, <<>>, 0, <<>>),
                          Line("zext i32 i64", r + 1, <<r>>, 0, <<>>),
                          Line("getelementptr memory", r + 2, <<r + 1>>, 0, <<>>)>>,
         context |-> [ctx EXCEPT !.regc = r + 3],
         ret |-> (r + 3) - 1]

write_move(text, ctx, n) ==
    LET r == ctx.regc
    IN  [ir |-> text \o <<Line("load memory_idx", r, <<>>, 0, <<>>),
                          Line("add i32", r + 1, <<r>>, n, <<>>),
                          Line("store memory_idx", -1, <<r + 1>>, 0, <<>>)>>,
         context |-> [ctx EXCEPT !.regc = r + 2]]

write_add(text, ctx, n) ==
    LET m == write_get_memory_ref(text, ctx)
        mem_ref == m.ret
        r == m.context.regc
    IN  [ir |-> m.ir \o <<Line("load i8", r, <<mem_ref>>, 0, <<>>),
                          Line("add i8", r + 1, <<r>>, n, <<>>),
                          Line("store i8", -1, <<r + 1, mem_ref>>, 0, <<>>)>>,
         context |-> [m.context EXCEPT !.regc = r + 2]]

\* write_getc without its regc += 2 before the address is computed.
write_getc_stale_regc(text, ctx) ==
    LET r == ctx.regc
        value == r + 1
        called == text \o <<Line("call getchar", r, <<>>, 0, <<>>),
                            Line("trunc i32 i8", value, <<r>>, 0, <<>>)>>
        m == write_get_memory_ref(called, ctx)
        mem_ref == m.ret
    IN  [ir |-> m.ir \o <<Line("store i8", -1, <<value, mem_ref>>, 0, <<>>)>>,
         context |-> m.context]

write_getc(text, ctx) ==
    LET r == ctx.regc
        value == r + 1
        called == text \o <<Line("call getchar", r, <<>>, 0, <<>>),
                            Line("trunc i32 i8", value, <<r>>, 0, <<>>)>>
        m == write_get_memory_ref(called, [ctx EXCEPT !.regc = r + 2])
        mem_ref == m.ret
    IN  [ir |-> m.ir \o <<Line("store i8", -1, <<value, mem_ref>>, 0, <<>>)>>,
         context |-> m.context]

\* write_putc that does not count the register of putchar's result.
write_putc_two_regs(text, ctx) ==
    LET m == write_get_memory_ref(text, ctx)
        r == m.context.regc
    IN  [ir |-> m.ir \o <<Line("load i8", r, <<r - 1>>, 0, <<>>),
                          Line("zext i8 i32", r + 1, <<r>>, 0, <<>>),
                          Line("call putchar", r + 2, <<r + 1>>, 0, <<>>)>>,
         context |-> [m.context EXCEPT !.regc = r + 2]]

write_putc(text, ctx) ==
    LET m == write_get_memory_ref(text, ctx)
        r == m.context.regc
    IN  [ir |-> m.ir \o <<Line("load i8", r, <<r - 1>>, 0, <<>>),
                          Line("zext i8 i32", r + 1, <<r>>, 0, <<>>),
                          Line("call putchar", r + 2, <<r + 1>>, 0, <<>>)>>,
         context |-> [m.context EXCEPT !.regc = r + 3]]

\* write_loop_begin without its loopc += 1.
write_loop_begin_same_id(text, ctx) ==
    LET loop_num == ctx.loopc
        branched == text \o <<Line("br", -1, <<>>, 0, <<LoopCond(loop_num)>>),
                              Line("label", -1, <<>>, 0, <<LoopCond(loop_num)>>)>>
        m == write_get_memory_ref(branched, ctx)
        r == m.context.regc
    IN  [ir |-> m.ir \o <<Line("load i8", r, <<r - 1>>, 0, <<>>),
                          Line("icmp eq 0", r + 1, <<r>>, 0, <<>>),
                          Line("br i1", -1, <<r + 1>>, 0,
                               <<LoopEnd(loop_num), LoopBegin(loop_num)>>),
                          Line("label", -1, <<>>, 0, <<LoopBegin(loop_num)>>)>>,
         context |-> [m.context EXCEPT !.regc = r + 2],
         ret |-> loop_num]

\* Returns the text, the context and the returned loop id (ret).
write_loop_begin(text, ctx) ==
    LET loop_num == ctx.loopc
        branched == text \o <<Line("br", -1, <<>>, 0, <<LoopCond(loop_num)>>),
                              Line("label", -1, <<>>, 0, <<LoopCond(loop_num)>>)>>
        m == write_get_memory_ref(branched, ctx)
        r == m.context.regc
    IN  [ir |-> m.ir \o <<Line("load i8", r, <<r - 1>>, 0, <<>>),
                          Line("icmp eq 0", r + 1, <<r>>, 0, <<>>),
                          Line("br i1", -1, <<r + 1>>, 0,
                               <<LoopEnd(loop_num), LoopBegin(loop_num)>>),
                          Line("label", -1, <<>>, 0, <<LoopBegin(loop_num)>>)>>,
         context |-> [m.context EXCEPT !.regc = r + 2, !.loopc = ctx.loopc + 1],
         ret |-> (ctx.loopc + 1) - 1]

write_loop_end(text, loop_num) ==
    text \o <<Line("br", -1, <<>>, 0, <<LoopCond(loop_num)>>),
              Line("label", -1, <<>>, 0, <<LoopEnd(loop_num)>>)>>

\* The statement the running activation of write_code stands on.
GenAt(kind) ==
    /\ gpc = "walk"
    /\ Top(gstack).idx < Len(Top(gstack).code)
    /\ Top(gstack).code[Top(gstack).idx + 1].k = kind

GenStmt == Top(gstack).code[Top(gstack).idx + 1]

\* The for loop of the running activation moves to its next statement.
GenAdvance(w) ==
    /\ ir' = w.ir
    /\ context' = w.context
    /\ gstack' = [gstack EXCEPT ![Len(gstack)].idx = @ + 1]
    /\ UNCHANGED <<gcode, gloops, gpc>>

\* code_gen up to its call of write_code.
GenHeader ==
    /\ gpc = "header"
    /\ ir' = write_header(ir)
    /\ gstack' = <<[code |-> gcode, idx |-> 0]>>
    /\ gpc' = "walk"
    /\ UNCHANGED <<gcode, gloops, context>>

GenMove == GenAt("Move") /\ GenAdvance(write_move(ir, context, GenStmt.n))

GenAdd == GenAt("Add") /\ GenAdvance(write_add(ir, context, GenStmt.n))

GenGetc == GenAt("Input") /\ GenAdvance(write_getc(ir, context))

GenPutc == GenAt("Output") /\ GenAdvance(write_putc(ir, context))

\* Stmt::Loop: write_loop_begin and the call write_code(ir, loop_code, context).
GenLoopBegin ==
    /\ GenAt("Loop")
    /\ LET w == write_loop_begin(ir, context)
       IN  /\ ir' = w.ir
           /\ context' = w.context
           /\ gloops' = Append(gloops, w.ret)
    /\ gstack' = Append(gstack, [code |-> GenStmt.body, idx |-> 0])
    /\ UNCHANGED <<gcode, gpc>>

\* GenLoopEnd closing with the id allocated last instead of the loop's own.
GenLoopEnd_last_id ==
    /\ gpc = "walk"
    /\ Top(gstack).idx >= Len(Top(gstack).code)
    /\ Len(gstack) > 1
    /\ ir' = write_loop_end(ir, context.loopc - 1)
    /\ gloops' = Pop(gloops)
    /\ gstack' = [Pop(gstack) EXCEPT ![Len(gstack) - 1].idx = @ + 1]
    /\ UNCHANGED <<gcode, context, gpc>>

\* The nested write_code returns: write_loop_end(ir, loop_num), next statement.
GenLoopEnd ==
    /\ gpc = "walk"
    /\ Top(gstack).idx >= Len(Top(gstack).code)
    /\ Len(gstack) > 1
    /\ ir' = write_loop_end(ir, Top(gloops))
    /\ gloops' = Pop(gloops)
    /\ gstack' = [Pop(gstack) EXCEPT ![Len(gstack) - 1].idx = @ + 1]
    /\ UNCHANGED <<gcode, context, gpc>>

\* The outermost write_code returns: write_footer, return ir.
GenFooter ==
    /\ gpc = "walk"
    /\ Top(gstack).idx >= Len(Top(gstack).code)
    /\ Len(gstack) = 1
    /\ ir' = write_footer(ir)
    /\ gpc' = "done"
    /\ UNCHANGED <<gcode, gstack, gloops, context>>

\* The trees of exactly n statements, counted at all depths, over the
\* primitive statements P.
RECURSIVE ProgramsOfSize(_, _)
ProgramsOfSize(P, n) ==
    IF n = 0 THEN {<<>>}
    ELSE UNION {
        {<<s>> \o rest :
            s \in (IF k = 1 THEN P ELSE {}) \cup
                  {Loop(b) : b \in ProgramsOfSize(P, k - 1)},
            rest \in ProgramsOfSize(P, n - k)} : k \in 1..n}

\* The trees parse can return with at most n statements: folded ones.
Programs(P, n) ==
    {c \in UNION {ProgramsOfSize(P, m) : m \in 0..n} : FoldedSeq(c)}

GenPrimitives == {Move(1), Add(-1), Input, Output}

InitGen ==
    /\ gcode \in Programs(GenPrimitives, MaxNodes)
    /\ gstack = <<>>
    /\ gloops = <<>>
    /\ ir = <<>>
    /\ context = [regc |-> 0, loopc |-> 0]
    /\ gpc = "header"
    /\ ParseIdle
    /\ ExecIdle

NextGen ==
    \/ GenHeader    /\ UNCHANGED <<parseVars, execVars>>
    \/ GenMove      /\ UNCHANGED <<parseVars, execVars>>
    \/ GenAdd       /\ UNCHANGED <<parseVars, execVars>>
    \/ GenGetc      /\ UNCHANGED <<parseVars, execVars>>
    \/ GenPutc      /\ UNCHANGED <<parseVars, execVars>>
    \/ GenLoopBegin /\ UNCHANGED <<parseVars, execVars>>
    \/ GenLoopEnd   /\ UNCHANGED <<parseVars, execVars>>
    \/ GenFooter    /\ UNCHANGED <<parseVars, execVars>>

SpecGen == InitGen /\ [][NextGen]_vars

(***************************************************************************)
(* Properties of code_gen                                                  *)
(***************************************************************************)
\* The positions of the lines that define a register, a label, or name one.
DefLines == {p \in 1..Len(ir) : ir[p].def >= 0}

LabelLines == {p \in 1..Len(ir) : ir[p].op = "label"}

LabelAt(l) == {p \in LabelLines : ir[p].lbl = <<l>>}

Naming(l) == {p \in 1..Len(ir) : \E q \in 1..Len(ir[p].lbl) : ir[p].lbl[q] = l}

\* The loop ids with a condition label in the text.
LoopIds == {ir[p].lbl[1][2] : p \in {q \in LabelLines : ir[q].lbl[1][1] = "loop_cond"}}

\* The Loop statements write_code has begun so far.
LoopsBegun ==
    IF gstack = <<>> THEN 0
    ELSE LET SumTo[j \in 0..Len(gstack)] ==
                 IF j = 0 THEN 0
                 ELSE SumTo[j - 1]
                      + LoopCount(SubSeq(gstack[j].code, 1, gstack[j].idx))
         IN  SumTo[Len(gstack)] + (Len(gstack) - 1)

\* C6: every register number is defined exactly once, the defined numbers
\* strictly increase along the text, all lie below the counter, and the
\* counter never decreases, also when a nested Loop body is entered or left.
C6_RegisterMonotonic ==
    /\ [](/\ \A p, q \in DefLines : p < q => ir[p].def < ir[q].def
          /\ \A p \in DefLines : ir[p].def < context.regc
          /\ Cardinality(DefLines) = context.regc)
    /\ [][context'.regc >= context.regc]_vars

\* A finished run that entered two nested loops and emitted after leaving them.
C6_Witness ==
    /\ gpc = "done"
    /\ gcode = <<Loop(<<Loop(<<>>), Output>>), Input>>
    /\ context.regc = 21
    /\ Cardinality(DefLines) = 21

\* C7: each of loop_cond<k>, loop_begin<k>, loop_end<k> is defined at most
\* once, and distinct Loop nodes get distinct ids: the ids in the text are as
\* many as the Loop nodes begun, siblings and nested ones alike.
C7_LoopIdsUnique ==
    /\ \A p, q \in LabelLines : ir[p].lbl = ir[q].lbl => p = q
    /\ gpc \in {"walk", "done"} => Cardinality(LoopIds) = LoopsBegun
    /\ gpc = "done" =>
           /\ Cardinality(LoopIds) = LoopCount(gcode)
           /\ Cardinality(LabelLines) = 3 * LoopCount(gcode)

\* Two structurally identical sibling loops "[[]][[]]", each with a nested one.
C7_Witness ==
    /\ gpc = "done"
    /\ gcode = <<Loop(<<Loop(<<>>)>>), Loop(<<Loop(<<>>)>>)>>
    /\ LoopIds = {0, 1, 2, 3}

\* The blocks of loop k in a finished text are wired as a test-first loop.
WiredAsLoop(k) ==
    /\ Cardinality(LabelAt(LoopCond(k))) = 1
    /\ Cardinality(LabelAt(LoopBegin(k))) = 1
    /\ Cardinality(LabelAt(LoopEnd(k))) = 1
    /\ LET c == CHOOSE p \in LabelAt(LoopCond(k)) : TRUE
           b == CHOOSE p \in LabelAt(LoopBegin(k)) : TRUE
           e == CHOOSE p \in LabelAt(LoopEnd(k)) : TRUE
           r == ir[c + 1].def
       IN  \* entered through the condition block
           /\ ir[c - 1].op = "br" /\ ir[c - 1].lbl = <<LoopCond(k)>>
           \* the condition block loads the cell at the cursor ...
           /\ ir[c + 1].op = "load memory_idx" /\ r >= 0
           /\ ir[c + 2].op = "zext i32 i64" /\ ir[c + 2].def = r + 1
           /\ ir[c + 2].use = <<r>>
           /\ ir[c + 3].op = "getelementptr memory" /\ ir[c + 3].def = r + 2
           /\ ir[c + 3].use = <<r + 1>>
           /\ ir[c + 4].op = "load i8" /\ ir[c + 4].def = r + 3
           /\ ir[c + 4].use = <<r + 2>>
           \* ... and leaves to loop_end when it is 0, to loop_begin otherwise
           /\ ir[c + 5].op = "icmp eq 0" /\ ir[c + 5].def = r + 4
           /\ ir[c + 5].use = <<r + 3>>
           /\ ir[c + 6].op = "br i1" /\ ir[c + 6].use = <<r + 4>>
           /\ ir[c + 6].lbl = <<LoopEnd(k), LoopBegin(k)>>
           /\ b = c + 7
           \* the body closes with a branch back to the same condition block
           /\ e > b
           /\ ir[e - 1].op = "br" /\ ir[e - 1].lbl = <<LoopCond(k)>>
           \* nothing else reaches the body or the condition block
           /\ Naming(LoopBegin(k)) = {c + 6, b}
           /\ Naming(LoopCond(k)) = {c - 1, c, e - 1}
           /\ Naming(LoopEnd(k)) = {c + 6, e}
           \* the blocks of the loops emitted inside the body lie inside it
           /\ \A p \in LabelLines :
                  (b < p /\ p < e) =>
                      \A l \in {LoopCond(ir[p].lbl[1][2]), LoopBegin(ir[p].lbl[1][2]),
                                LoopEnd(ir[p].lbl[1][2])} :
                          \A q \in LabelAt(l) : b < q /\ q < e

\* C9: for every Loop, at any depth, control enters loop_cond<k> first and
\* again after the body, loop_cond<k> tests the cell at the cursor and goes
\* to loop_end<k> on 0 and to loop_begin<k> otherwise, and the closing
\* branch and end label carry the loop's own id k.
C9_LoopControlFlow ==
    gpc = "done" =>
        /\ LoopIds = 0..(LoopCount(gcode) - 1)
        /\ \A k \in LoopIds : WiredAsLoop(k)

\* A loop whose body holds two further loops, which take ids 1 and 2 before
\* loop 0 is closed.
C9_Witness ==
    /\ gpc = "done"
    /\ gcode = <<Loop(<<Loop(<<>>), Add(-1), Loop(<<>>)>>)>>
    /\ ir[Len(ir) - 4] = Line("label", -1, <<>>, 0, <<LoopEnd(0)>>)

\* Registers one statement consumes: putc for Output, cond for one condition
\* check of a Loop.
RECURSIVE RegsOfSeq(_, _, _)
RegsOfSeq(code, putc, cond) ==
    IF code = <<>> THEN 0
    ELSE (CASE code[1].k = "Move"   -> 2
            [] code[1].k = "Add"    -> 5
            [] code[1].k = "Input"  -> 5
            [] code[1].k = "Output" -> putc
            [] code[1].k = "Loop"   -> cond + RegsOfSeq(code[1].body, putc, cond))
         + RegsOfSeq(Tail(code), putc, cond)

\* The registers the statements emitted so far account for.
RegsEmitted(putc, cond) ==
    LET SumTo[j \in 0..Len(gstack)] ==
            IF j = 0 THEN 0
            ELSE SumTo[j - 1]
                 + RegsOfSeq(SubSeq(gstack[j].code, 1, gstack[j].idx), putc, cond)
    IN  SumTo[Len(gstack)] + cond * (Len(gstack) - 1)

\* C8 as stated: Move 2, Add 5, Input 5, Output 5, Loop 3 plus its body.
C8_AsStated ==
    gpc \in {"walk", "done"} => context.regc = RegsEmitted(5, 3)

\* C8 amended: Move 2, Add 5, Input 5, Output 6 (3 for the address, the
\* load, the widening and the call's result), Loop 5 for its condition check
\* (3 for the address, the load, the compare) plus what its body consumes.
C8_RegistersPerStatement ==
    /\ gpc \in {"walk", "done"} => context.regc = RegsEmitted(6, 5)
    /\ gpc = "done" => context.regc = RegsOfSeq(gcode, 6, 5)

C8_Witness ==
    /\ gpc = "done"
    /\ gcode = <<Output, Loop(<<Move(1)>>), Input>>
    /\ context.regc = 6 + (5 + 2) + 5

(***************************************************************************)
(* execute                                                                 *)
(***************************************************************************)
TAPE_SIZE == 65536

\* Rust's % on i32: the remainder takes the sign of the dividend.
Rem(v, m) == IF v >= 0 THEN v % m ELSE -((-v) % m)

\* let modulo = |v, m| { ((v % m) + m) % m }
modulo(v, m) == Rem(Rem(v, m) + m, m)

\* state.tape[state.ptr as usize] is in bounds (a negative ptr casts to a
\* usize beyond the tape).
InTape(st) == st.ptr >= 0 /\ st.ptr < TAPE_SIZE

\* The cell at the cursor; a cell never written still holds its initial 0.
Cell(st) == IF st.ptr \in DOMAIN st.tape THEN st.tape[st.ptr] ELSE 0

SetCell(st, v) ==
    [st EXCEPT !.tape = [p \in (DOMAIN st.tape) \cup {st.ptr} |->
                             IF p = st.ptr THEN v ELSE st.tape[p]]]

\* print!("{}", v as u8 as char): the char U+0000..U+00FF written as UTF-8.
print_char(v) ==
    LET b == v % 256
    IN  IF b < 128 THEN <<b>>
        ELSE <<192 + (b \div 64), 128 + (b % 64)>>

\* The bytes stdin may deliver.
StdinBytes == {0, 65, 128, 255}

ExecAt(kind) ==
    /\ epc = "run"
    /\ steps < MaxSteps
    /\ Top(estack).idx < Len(Top(estack).code)
    /\ Top(estack).code[Top(estack).idx + 1].k = kind

ExecStmt == Top(estack).code[Top(estack).idx + 1]

\* idx += 1 in the running activation.
ExecAdvance ==
    /\ estack' = [estack EXCEPT ![Len(estack)].idx = @ + 1]
    /\ steps' = steps + 1
    /\ UNCHANGED <<ecode, epc>>

\* The index into the tape is out of bounds: the thread panics.
ExecPanic ==
    /\ epc' = "panic"
    /\ steps' = steps + 1
    /\ UNCHANGED <<ecode, estack, state, out>>

ExecMove ==
    /\ ExecAt("Move")
    /\ state' = [state EXCEPT !.ptr = @ + ExecStmt.n]
    /\ ExecAdvance
    /\ UNCHANGED out

ExecAdd ==
    /\ ExecAt("Add")
    /\ IF InTape(state)
           THEN /\ state' = SetCell(state, modulo(Cell(state) + ExecStmt.n, 256))
                /\ ExecAdvance
                /\ UNCHANGED out
           ELSE ExecPanic

ExecInput ==
    /\ ExecAt("Input")
    /\ \E byte \in StdinBytes :
           IF InTape(state)
               THEN /\ state' = SetCell(state, modulo(byte, 256))
                    /\ ExecAdvance
                    /\ UNCHANGED out
               ELSE ExecPanic

\* stdin is at its end (or fails): unwrap() of None panics.
ExecInputEof ==
    /\ ExecAt("Input")
    /\ ExecPanic

ExecOutput ==
    /\ ExecAt("Output")
    /\ IF InTape(state)
           THEN /\ out' = out \o print_char(Cell(state))
                /\ ExecAdvance
                /\ UNCHANGED state
           ELSE ExecPanic

\* Stmt::Loop with a cell > 0: execute(&code, state), then continue.
ExecLoopEnter ==
    /\ ExecAt("Loop")
    /\ IF InTape(state)
           THEN /\ Cell(state) > 0
                /\ estack' = Append(estack, [code |-> ExecStmt.body, idx |-> 0])
                /\ steps' = steps + 1
                /\ UNCHANGED <<ecode, state, out, epc>>
           ELSE ExecPanic

\* Stmt::Loop with a cell that is not > 0: idx += 1.
ExecLoopSkip ==
    /\ ExecAt("Loop")
    /\ InTape(state)
    /\ ~(Cell(state) > 0)
    /\ ExecAdvance
    /\ UNCHANGED <<state, out>>

\* The while condition fails: execute returns, to the Loop arm's continue
\* or to main.
ExecReturn ==
    /\ epc = "run"
    /\ Top(estack).idx >= Len(Top(estack).code)
    /\ IF Len(estack) > 1
           THEN estack' = Pop(estack) /\ UNCHANGED epc
           ELSE epc' = "done" /\ UNCHANGED estack
    /\ UNCHANGED <<ecode, state, out, steps>>

ExecPrimitives == {Move(1), Move(-1), Add(1), Add(-1), Input, Output}

\* main: ProgramState { ptr: 0, tape: [0; TAPE_SIZE] }; execute(&program, &mut state).
InitExec ==
    /\ ecode \in Programs(ExecPrimitives, MaxExecNodes)
    /\ estack = <<[code |-> ecode, idx |-> 0]>>
    /\ state = [ptr |-> 0, tape |-> <<>>]
    /\ out = <<>>
    /\ steps = 0
    /\ epc = "run"
    /\ ParseIdle
    /\ GenIdle

NextExec ==
    \/ ExecMove      /\ UNCHANGED <<parseVars, genVars>>
    \/ ExecAdd       /\ UNCHANGED <<parseVars, genVars>>
    \/ ExecInput     /\ UNCHANGED <<parseVars, genVars>>
    \/ ExecInputEof  /\ UNCHANGED <<parseVars, genVars>>
    \/ ExecOutput    /\ UNCHANGED <<parseVars, genVars>>
    \/ ExecLoopEnter /\ UNCHANGED <<parseVars, genVars>>
    \/ ExecLoopSkip  /\ UNCHANGED <<parseVars, genVars>>
    \/ ExecReturn    /\ UNCHANGED <<parseVars, genVars>>

SpecExec == InitExec /\ [][NextExec]_vars

\* C5: executing Output on a cell in the tape writes exactly one byte, the
\* value of the cell at the cursor, whatever that value in 0..255 is; so
\* "-." on a zeroed tape writes the single byte 255.
C5_OutputWritesTheCell ==
    [][(ExecAt("Output") /\ InTape(state)) => out' = Append(out, Cell(state))]_vars

====
